---- MODULE Spec2Model ----
(***************************************************************************)
(* QAOA circuit construction and cost functions of entropica_qaoa          *)
(* (entropica_qaoa/qaoa/cost_function.py).                                 *)
(*                                                                         *)
(* A Quil program is a sequence of instructions.  An instruction is a      *)
(* record [op, mult, name, idx, qubits, size]:                             *)
(*   DECLARE name REAL[size]        op = "DECLARE"                         *)
(*   H q                            op = "H"                               *)
(*   RX(mult*name[idx]) q           op = "RX"                              *)
(*   RZ(mult*name[idx]) q           op = "RZ"                              *)
(*   CPHASE(mult*name[idx]) a b     op = "CPHASE"                          *)
(*   X q                            op = "X"  (user state preparation)     *)
(***************************************************************************)
EXTENDS Integers, Sequences, FiniteSets, TLC

\* ------------------------------------------------------------------ bounds
\* qubits are 0 .. NQubits-1
NQubits == 2
\* longest qubit list / largest declared size in a direct call of a rotation
MaxLen == 2
\* longest qubits_pairs list of a params object
MaxPairs == 1
\* largest n_steps of a params object
MaxSteps == 2
\* the raw vectors a caller passes start at a value in 0 .. MaxAngle
MaxAngle == 2
\* most invocations (__call__ / get_wavefunction) of one cost function
MaxCalls == 2
\* most cost functions constructed from the same arguments
MaxConstructs == 2

Qubits == 0 .. (NQubits - 1)
AngleVals == 0 .. MaxAngle

Min(a, b) == IF a <= b THEN a ELSE b

SeqsUpTo(S, n) == UNION {[1 .. k -> S] : k \in 0 .. n}

DistinctSeqs(S, n) ==
    {s \in SeqsUpTo(S, n) : \A i, j \in DOMAIN s : i # j => s[i] # s[j]}

\* ------------------------------------------------- the SDK's program model
\* Program(): the empty program
EmptyProgram == <<>>

\* MemoryReference(name, offset, declared_size)
MemoryReference(name, offset, declared_size) ==
    [name |-> name, offset |-> offset, declared_size |-> declared_size]

\* the DECLARE instruction p.declare(name, 'REAL', size) appends to p
Declare(name, size) ==
    [op |-> "DECLARE", mult |-> 0, name |-> name, idx |-> 0,
     qubits |-> <<>>, size |-> size]

\* a gate whose angle is mult * ref, ref a MemoryReference with an offset
Gate(op, mult, ref, qubits) ==
    [op |-> op, mult |-> mult, name |-> ref.name, idx |-> ref.offset,
     qubits |-> qubits, size |-> 0]

RX(mult, ref, q) == Gate("RX", mult, ref, <<q>>)
RZ(mult, ref, q) == Gate("RZ", mult, ref, <<q>>)
CPHASE(mult, ref, a, b) == Gate("CPHASE", mult, ref, <<a, b>>)

\* a gate without a parameter
PlainGate(op, q) ==
    [op |-> op, mult |-> 0, name |-> "", idx |-> 0, qubits |-> <<q>>,
     size |-> 0]

H(q) == PlainGate("H", q)

\* p.pop(): p without its last instruction
Pop(p) == SubSeq(p, 1, Len(p) - 1)

\* ref[k]: the k-th entry of a base memory reference (offset k, 0-based)
MemItem(ref, k) == MemoryReference(ref.name, k, ref.declared_size)

\* zip(ref, list): iterating ref yields ref[0], ref[1], ... and stops at
\* ref.declared_size; a reference of declared size 0 never stops by itself,
\* so the list alone ends the zip.
ZipLen(ref, list) ==
    IF ref.declared_size = 0 THEN Len(list)
    ELSE Min(ref.declared_size, Len(list))

\* 'family{}'.format(i)
RegName(family, i) == family \o ToString(i)

\* what a call hands back: either a returned program or a raised exception;
\* built is the function's local program p at the moment it was left
Returned(p) ==
    [exc |-> "none", msg |-> "", returned |-> TRUE, prog |-> p, built |-> p]

Raised(exc, msg, p) ==
    [exc |-> exc, msg |-> msg, returned |-> FALSE, prog |-> <<>>, built |-> p]

\* --------------------------------------------------- _qaoa_mixing_ham_rotation
MixingGates(betas, reg) ==
    [k \in 1 .. ZipLen(betas, reg) |-> RX(-2, MemItem(betas, k - 1), reg[k])]

\* faulty variant: the length check is missing
qaoa_mixing_ham_rotation_nocheck(betas, reg) ==
    Returned(MixingGates(betas, reg))

qaoa_mixing_ham_rotation(betas, reg) ==
    IF Len(reg) # betas.declared_size
    THEN Raised("ValueError",
                "x_rotation_angles must have the same length as reg",
                EmptyProgram)
    ELSE Returned(MixingGates(betas, reg))

\* ----------------------------------------------------- _qaoa_cost_ham_rotation
\* the three instructions of the k-th pair (k 1-based)
PairGates(gammas_pairs, qubit_pairs, k) ==
    LET gamma_pair == MemItem(gammas_pairs, k - 1)
        qubit_pair == qubit_pairs[k]
    IN  << RZ(2, gamma_pair, qubit_pair[1]),
           RZ(2, gamma_pair, qubit_pair[2]),
           CPHASE(-4, gamma_pair, qubit_pair[1], qubit_pair[2]) >>

RECURSIVE PairLoop(_, _, _)
\* the first n iterations of the loop over zip(gammas_pairs, qubit_pairs)
PairLoop(gammas_pairs, qubit_pairs, n) ==
    IF n = 0 THEN EmptyProgram
    ELSE PairLoop(gammas_pairs, qubit_pairs, n - 1)
         \o PairGates(gammas_pairs, qubit_pairs, n)

SingleGates(gammas_singles, qubit_singles) ==
    [k \in 1 .. ZipLen(gammas_singles, qubit_singles) |->
        RZ(2, MemItem(gammas_singles, k - 1), qubit_singles[k])]

\* faulty variant: the singles check is made before the pairs check
qaoa_cost_ham_rotation_singles_first(gammas_pairs, qubit_pairs, gammas_singles, qubit_singles) ==
    IF gammas_singles.declared_size # Len(qubit_singles)
    THEN Raised("ValueError",
                "z_rotation_angles must have the same length as qubit_singles",
                EmptyProgram)
    ELSE IF Len(qubit_pairs) # gammas_pairs.declared_size
    THEN Raised("ValueError",
                "zz_rotation_angles must have the same length as qubits_pairs",
                EmptyProgram)
    ELSE Returned(PairLoop(gammas_pairs, qubit_pairs,
                           ZipLen(gammas_pairs, qubit_pairs))
                  \o SingleGates(gammas_singles, qubit_singles))

\* faulty variant: the single-qubit rotations are emitted before the pair rotations
qaoa_cost_ham_rotation_gates_swapped(gammas_pairs, qubit_pairs, gammas_singles, qubit_singles) ==
    IF Len(qubit_pairs) # gammas_pairs.declared_size
       \/ gammas_singles.declared_size # Len(qubit_singles)
    THEN Raised("ValueError", "", EmptyProgram)
    ELSE Returned(SingleGates(gammas_singles, qubit_singles)
                  \o PairLoop(gammas_pairs, qubit_pairs,
                              ZipLen(gammas_pairs, qubit_pairs)))

qaoa_cost_ham_rotation(gammas_pairs, qubit_pairs, gammas_singles, qubit_singles) ==
    IF Len(qubit_pairs) # gammas_pairs.declared_size
    THEN Raised("ValueError",
                "zz_rotation_angles must have the same length as qubits_pairs",
                EmptyProgram)
    ELSE LET p1 == PairLoop(gammas_pairs, qubit_pairs,
                            ZipLen(gammas_pairs, qubit_pairs))
         IN  IF gammas_singles.declared_size # Len(qubit_singles)
             THEN Raised("ValueError",
                  "z_rotation_angles must have the same length as qubit_singles",
                  p1)
             ELSE Returned(p1 \o SingleGates(gammas_singles, qubit_singles))

\* ----------------------------------------------------- the params object
\* (entropica_qaoa/qaoa/parameters.py: a params object holds the qubit
\* lists, n_steps, and one row of angles per step and angle family; raw()
\* is betas followed by gammas, update_from_raw writes a raw vector back
\* and recomputes the rows.)
XRow(beta, reg) == [k \in 1 .. Len(reg) |-> beta]
ZRow(gamma, qubits_singles) == [k \in 1 .. Len(qubits_singles) |-> gamma * k]
ZZRow(gamma, qubits_pairs) == [k \in 1 .. Len(qubits_pairs) |-> gamma * (k + 1)]

raw(params) == params.betas \o params.gammas

update_from_raw(params, new) ==
    LET n == params.n_steps
        betas == SubSeq(new, 1, n)
        gammas == SubSeq(new, n + 1, 2 * n)
    IN  [params EXCEPT
            !.betas = betas,
            !.gammas = gammas,
            !.x_rotation_angles = [i \in 1 .. n |-> XRow(betas[i], params.reg)],
            !.z_rotation_angles =
                [i \in 1 .. n |-> ZRow(gammas[i], params.qubits_singles)],
            !.zz_rotation_angles =
                [i \in 1 .. n |-> ZZRow(gammas[i], params.qubits_pairs)]]

\* a params object of the given shape holding the raw vector new
MakeParams(reg, qubits_singles, qubits_pairs, n_steps, new) ==
    update_from_raw([reg |-> reg, qubits_singles |-> qubits_singles,
                     qubits_pairs |-> qubits_pairs, n_steps |-> n_steps,
                     betas |-> <<>>, gammas |-> <<>>,
                     x_rotation_angles |-> <<>>, z_rotation_angles |-> <<>>,
                     zz_rotation_angles |-> <<>>], new)

\* ----------------------------------------------------- _qaoa_annealing_program
\* faulty variant: a zero-length declaration is left in the program
DeclareUnlessEmpty_keep(p, name, list) == Append(p, Declare(name, Len(list)))

\* p.declare(name, 'REAL', len(list)), undone by p.pop() when list is empty
DeclareUnlessEmpty(p, name, list) ==
    LET p1 == Append(p, Declare(name, Len(list)))
    IN  IF Len(list) = 0 THEN Pop(p1) ELSE p1

\* one iteration of the declaring loop, for step i (0-based)
DeclareStep(p, params, i) ==
    LET p1 == DeclareUnlessEmpty(p, RegName("x_rotation_angles", i), params.reg)
        p2 == DeclareUnlessEmpty(p1, RegName("z_rotation_angles", i),
                                 params.qubits_singles)
    IN  DeclareUnlessEmpty(p2, RegName("zz_rotation_angles", i),
                           params.qubits_pairs)

RECURSIVE DeclareLoop(_, _)
\* the program after the first n iterations of the declaring loop
DeclareLoop(params, n) ==
    IF n = 0 THEN EmptyProgram
    ELSE DeclareStep(DeclareLoop(params, n - 1), params, n - 1)

\* the memory references the declaring loop keeps for step i
Betas(params, i) ==
    MemoryReference(RegName("x_rotation_angles", i), 0, Len(params.reg))
GammasSingles(params, i) ==
    MemoryReference(RegName("z_rotation_angles", i), 0,
                    Len(params.qubits_singles))
GammasPairs(params, i) ==
    MemoryReference(RegName("zz_rotation_angles", i), 0,
                    Len(params.qubits_pairs))

\* faulty variant: the mixing rotation is applied before the cost rotation
AnnealBlock_mixing_first(params, i) ==
    LET c == qaoa_cost_ham_rotation(GammasPairs(params, i), params.qubits_pairs,
                                    GammasSingles(params, i),
                                    params.qubits_singles)
        m == qaoa_mixing_ham_rotation(Betas(params, i), params.reg)
    IN  Returned(m.prog \o c.prog)

\* one iteration of the second loop: the cost rotation of step i, then its
\* mixing rotation; an exception of either leaves the loop
AnnealBlock(params, i) ==
    LET c == qaoa_cost_ham_rotation(GammasPairs(params, i), params.qubits_pairs,
                                    GammasSingles(params, i),
                                    params.qubits_singles)
        m == qaoa_mixing_ham_rotation(Betas(params, i), params.reg)
    IN  IF ~c.returned THEN Raised(c.exc, c.msg, EmptyProgram)
        ELSE IF ~m.returned THEN Raised(m.exc, m.msg, c.prog)
        ELSE Returned(c.prog \o m.prog)

RECURSIVE AnnealLoop(_, _)
\* the gates added by the first n iterations of the second loop
AnnealLoop(params, n) ==
    IF n = 0 THEN Returned(EmptyProgram)
    ELSE LET prev == AnnealLoop(params, n - 1)
             blk == AnnealBlock(params, n - 1)
         IN  IF ~prev.returned THEN prev
             ELSE IF ~blk.returned
                  THEN Raised(blk.exc, blk.msg, prev.prog \o blk.built)
                  ELSE Returned(prev.prog \o blk.prog)

qaoa_annealing_program(params) ==
    LET decls == DeclareLoop(params, params.n_steps)
        gates == AnnealLoop(params, params.n_steps)
    IN  IF gates.returned THEN Returned(decls \o gates.prog)
        ELSE Raised(gates.exc, gates.msg, decls \o gates.built)

\* ------------------------------------------------------------ _all_plus_state
\* faulty variant: the Hadamards are applied in reverse register order
all_plus_state_reversed(reg) ==
    [k \in 1 .. Len(reg) |-> H(reg[Len(reg) + 1 - k])]

all_plus_state(reg) == [k \in 1 .. Len(reg) |-> H(reg[k])]

\* -------------------------------------------------------- prepare_qaoa_ansatz
\* p += annealing, for p the caller's Program object holding initial_state.
\* Whether += extends that object in place or makes a new Program is the
\* SDK's choice (in_place): in place, the caller's object ends up holding the
\* whole ansatz and is the object returned (same).  arg is the content of the
\* caller's object after the statement.
IAdd(initial_state, annealing, in_place) ==
    IF annealing.returned
    THEN [exc |-> "none", msg |-> "", returned |-> TRUE,
          prog |-> initial_state \o annealing.prog,
          built |-> initial_state \o annealing.prog,
          arg |-> IF in_place THEN initial_state \o annealing.prog
                  ELSE initial_state,
          same |-> in_place]
    ELSE [exc |-> annealing.exc, msg |-> annealing.msg, returned |-> FALSE,
          prog |-> <<>>, built |-> initial_state, arg |-> initial_state,
          same |-> FALSE]

\* p = initial_state; p += _qaoa_annealing_program(qaoa_params); return p
prepare_qaoa_ansatz(initial_state, qaoa_params, in_place) ==
    IAdd(initial_state, qaoa_annealing_program(qaoa_params), in_place)

\* ------------------------------------------------------- make_qaoa_memory_map
EmptyMap == [k \in {} |-> <<>>]

\* memory_map[key] = value
Put(memory_map, key, value) ==
    [k \in (DOMAIN memory_map) \cup {key} |->
        IF k = key THEN value ELSE memory_map[k]]

\* faulty variant: the z and zz rows are exchanged
MemoryMapStep_swapped(memory_map, qaoa_params, i) ==
    LET m1 == Put(memory_map, RegName("x_rotation_angles", i),
                  qaoa_params.x_rotation_angles[i + 1])
        m2 == Put(m1, RegName("z_rotation_angles", i),
                  qaoa_params.zz_rotation_angles[i + 1])
    IN  Put(m2, RegName("zz_rotation_angles", i),
            qaoa_params.z_rotation_angles[i + 1])

\* one iteration of the loop, for step i (0-based; rows are 1-based here)
MemoryMapStep(memory_map, qaoa_params, i) ==
    LET m1 == Put(memory_map, RegName("x_rotation_angles", i),
                  qaoa_params.x_rotation_angles[i + 1])
        m2 == Put(m1, RegName("z_rotation_angles", i),
                  qaoa_params.z_rotation_angles[i + 1])
    IN  Put(m2, RegName("zz_rotation_angles", i),
            qaoa_params.zz_rotation_angles[i + 1])

RECURSIVE MemoryMapLoop(_, _)
MemoryMapLoop(qaoa_params, n) ==
    IF n = 0 THEN EmptyMap
    ELSE MemoryMapStep(MemoryMapLoop(qaoa_params, n - 1), qaoa_params, n - 1)

make_qaoa_memory_map(qaoa_params) ==
    MemoryMapLoop(qaoa_params, qaoa_params.n_steps)

\* ------------------------------------------------------------------- state
VARIABLES
    ret,             \* the latest direct call of a circuit-building function
    heap,            \* the params objects, by identity; heap[1] is the caller's
    initial_state,   \* the caller's initial_state: whether one is given, and
                     \* the current content of that Program object
    iadd_in_place,   \* whether the SDK's Program += extends the left operand
                     \* in place (otherwise it makes a new Program)
    enable_logging,  \* the constructor's enable_logging argument
    pc,              \* "idle", "new" (not yet constructed), "ready"
    kind,            \* "WFSim" or "QVM" once constructed
    self_params,     \* self.params: the identity of a params object
    prepare_ansatz,  \* self.prepare_ansatz of the latest cost function: the
                     \* current content of that Program object
    shared,          \* whether that object is the caller's initial_state
    older,           \* the cost functions constructed before the latest one:
                     \* [shared, prog], their prepare_ansatz as it is now
    given_at,        \* history: the content of the initial program when the
                     \* latest constructor received it
    log,             \* self.log: LogEntry records [x: a reference, fun]
    x,               \* the caller's array of raw parameters
    copies,          \* the arrays made by deepcopy, by identity
    memory_map,      \* the latest result of cost_fun.make_memory_map(params)
    ninv,            \* number of __call__/get_wavefunction invocations so far
    hist,            \* history: per __call__, the raw vector passed and the
                     \* value the parent call logged
    last             \* history: the latest invocation's raw vector, what the
                     \* parent saw in self.params, and the memory map it used

vars == << ret, heap, initial_state, iadd_in_place, enable_logging, pc, kind,
           self_params, prepare_ansatz, shared, older, given_at, log, x, copies,
           memory_map, ninv, hist, last >>

\* the number of cost functions constructed so far
NConstructed == IF pc = "ready" THEN Len(older) + 1 ELSE 0

\* which cost function, and which of its invocations, the state is at
Epoch == << NConstructed, ninv >>

\* references held by log entries
ParamsRef(id) == [obj |-> "params", id |-> id]
ArrayRef(id) == [obj |-> "array", id |-> id]
CallerArray == 0

\* the object a reference points to, in the current state
Deref(ref) ==
    IF ref.obj = "params" THEN heap[ref.id]
    ELSE IF ref.id = CallerArray THEN x
    ELSE copies[ref.id]

\* ------------------------------------------------------------------ inputs
\* the raw vectors a caller passes, in the layout raw() has in this model of
\* the params class (n betas, then n gammas): the t-th one has betas falling
\* to t and gammas rising from t + 1.  They are inputs; which vector a given
\* params class or optimizer produces is not modelled.
RawVector(n, t) ==
    [i \in 1 .. (2 * n) |-> IF i <= n THEN t + (n - i) ELSE t + (i - n)]

RawVecs(n) == {RawVector(n, t) : t \in AngleVals}

\* lists of qubits picked from reg, in reg's order
SubLists(reg) ==
    {s \in DistinctSeqs(Qubits, Len(reg)) :
        \E f \in [DOMAIN s -> DOMAIN reg] :
            /\ \A i \in DOMAIN s : reg[f[i]] = s[i]
            /\ \A i, j \in DOMAIN s : i < j => f[i] < f[j]}

\* the pairs of qubits of reg, first qubit first in reg
RegPairs(reg) == {<<reg[i], reg[j]>> : i, j \in DOMAIN reg} \ {<<q, q>> : q \in Qubits}

OrderedRegPairs(reg) ==
    {pr \in RegPairs(reg) :
        \E i, j \in DOMAIN reg : i < j /\ reg[i] = pr[1] /\ reg[j] = pr[2]}

\* the Hamiltonian of the repository's tests: Z0*Z1, Z0 and Z1 terms
TestReg == << 0, 1 >>
TestSingles == << 0, 1 >>
TestPairs == << << 0, 1 >> >>

\* state-preparation programs a caller may pass as initial_state
UserPrograms ==
    { << PlainGate("X", 0) >>, << PlainGate("H", 0), PlainGate("X", 0) >> }

NoInitialState == [given |-> FALSE, prog |-> EmptyProgram]
InitialStates ==
    {NoInitialState} \cup {[given |-> TRUE, prog |-> up] : up \in UserPrograms}

NoCall == [fn |-> "none"]
NoMemoryMap == [built |-> FALSE]
NoInvocation == [valid |-> FALSE]

\* --------------------------------------------------- direct calls (rotations)
\* one call of a rotation function per run, with any arguments
InitRot ==
    /\ ret = NoCall
    /\ heap = <<>>
    /\ initial_state = NoInitialState
    /\ iadd_in_place = FALSE
    /\ enable_logging = FALSE
    /\ pc = "idle"
    /\ kind = "none"
    /\ self_params = 0
    /\ prepare_ansatz = EmptyProgram
    /\ shared = FALSE
    /\ older = <<>>
    /\ given_at = EmptyProgram
    /\ log = <<>>
    /\ x = <<>>
    /\ copies = <<>>
    /\ memory_map = NoMemoryMap
    /\ ninv = 0
    /\ hist = <<>>
    /\ last = NoInvocation

UNCHANGED_lifecycle ==
    UNCHANGED << heap, initial_state, iadd_in_place, enable_logging, pc, kind,
                 self_params, prepare_ansatz, shared, older, given_at, log, x,
                 copies, memory_map, ninv, hist, last >>

\* _qaoa_mixing_ham_rotation(betas, reg) called with any declared size
MixingCall ==
    /\ pc = "idle"
    /\ ret = NoCall
    /\ \E size \in 0 .. MaxLen, reg \in DistinctSeqs(Qubits, MaxLen) :
         LET betas == MemoryReference(RegName("x_rotation_angles", 0), 0, size)
         IN  ret' = [fn |-> "mixing", betas |-> betas, reg |-> reg,
                     out |-> qaoa_mixing_ham_rotation(betas, reg)]
    /\ UNCHANGED_lifecycle

\* _qaoa_cost_ham_rotation(...) called with any declared sizes
CostCall ==
    /\ pc = "idle"
    /\ ret = NoCall
    /\ \E psize \in 0 .. MaxLen, ssize \in 0 .. MaxLen,
          qubit_pairs \in SeqsUpTo(RegPairs([q \in 1 .. NQubits |-> q - 1]), MaxLen),
          qubit_singles \in DistinctSeqs(Qubits, MaxLen) :
         LET gammas_pairs ==
                 MemoryReference(RegName("zz_rotation_angles", 0), 0, psize)
             gammas_singles ==
                 MemoryReference(RegName("z_rotation_angles", 0), 0, ssize)
         IN  ret' = [fn |-> "cost",
                     gammas_pairs |-> gammas_pairs,
                     qubit_pairs |-> qubit_pairs,
                     gammas_singles |-> gammas_singles,
                     qubit_singles |-> qubit_singles,
                     out |-> qaoa_cost_ham_rotation(gammas_pairs, qubit_pairs,
                                 gammas_singles, qubit_singles)]
    /\ UNCHANGED_lifecycle

NextRot == MixingCall \/ CostCall

SpecRot == InitRot /\ [][NextRot]_vars

\* an instruction written out, for stating what a program must contain
Instr(op, mult, name, idx, qubits) ==
    [op |-> op, mult |-> mult, name |-> name, idx |-> idx, qubits |-> qubits,
     size |-> 0]

\* C3: _qaoa_mixing_ham_rotation raises ValueError whenever len(reg) differs
\* from the declared size of betas, and then hands back no program and has
\* produced no RX instruction; when the lengths are equal it raises nothing.
C3_MixingLengthCheck ==
    ret.fn = "mixing" =>
        IF Len(ret.reg) # ret.betas.declared_size
        THEN /\ ret.out.exc = "ValueError"
             /\ ~ret.out.returned
             /\ ret.out.prog = <<>>
             /\ \A k \in DOMAIN ret.out.built : ret.out.built[k].op # "RX"
        ELSE /\ ret.out.exc = "none"
             /\ ret.out.returned

C3_Witness ==
    /\ ret.fn = "mixing"
    /\ Len(ret.reg) # ret.betas.declared_size
    /\ Len(ret.reg) > 0
    /\ ret.betas.declared_size > 0
    /\ ret.out.exc = "ValueError"

\* C4: _qaoa_cost_ham_rotation raises ValueError whenever len(qubit_pairs)
\* differs from the declared size of gammas_pairs or len(qubit_singles) from
\* that of gammas_singles; the pairs check comes first; in either case no
\* program is returned, although the pair gates have been built already when
\* it is the singles check that fails.
C4_CostLengthChecks ==
    ret.fn = "cost" =>
        LET pairs_differ ==
                Len(ret.qubit_pairs) # ret.gammas_pairs.declared_size
            singles_differ ==
                Len(ret.qubit_singles) # ret.gammas_singles.declared_size
        IN  /\ (pairs_differ \/ singles_differ) <=> ret.out.exc = "ValueError"
            /\ (pairs_differ \/ singles_differ) =>
                   ~ret.out.returned /\ ret.out.prog = <<>>
            /\ pairs_differ =>
                   /\ ret.out.msg =
                        "zz_rotation_angles must have the same length as qubits_pairs"
                   /\ ret.out.built = <<>>
            /\ (~pairs_differ /\ singles_differ) =>
                   /\ ret.out.msg =
                        "z_rotation_angles must have the same length as qubit_singles"
                   /\ Len(ret.out.built) = 3 * Len(ret.qubit_pairs)
            /\ ~(pairs_differ \/ singles_differ) => ret.out.returned

C4_Witness ==
    /\ ret.fn = "cost"
    /\ Len(ret.qubit_pairs) = ret.gammas_pairs.declared_size
    /\ Len(ret.qubit_singles) # ret.gammas_singles.declared_size
    /\ ret.out.exc = "ValueError"
    /\ ~ret.out.returned
    /\ Len(ret.out.built) >= 3

\* C9: when the lengths match, _qaoa_cost_ham_rotation returns exactly
\* 3*len(qubit_pairs) + len(qubit_singles) instructions: for the k-th pair
\* (a, b) RZ(2*gamma_k, a), RZ(2*gamma_k, b), CPHASE(-4*gamma_k, a, b), with
\* gamma_k the k-th entry of gammas_pairs, then for the j-th single qubit q
\* RZ(2*gamma_j, q), with gamma_j the j-th entry of gammas_singles.
C9_CostRotationInstructions ==
    (ret.fn = "cost" /\ ret.out.returned) =>
        LET np == Len(ret.qubit_pairs)
            ns == Len(ret.qubit_singles)
            prog == ret.out.prog
            zz == ret.gammas_pairs.name
            z == ret.gammas_singles.name
        IN  /\ Len(prog) = 3 * np + ns
            /\ \A k \in 1 .. np :
                 LET a == ret.qubit_pairs[k][1]
                     b == ret.qubit_pairs[k][2]
                 IN  /\ prog[3 * k - 2] = Instr("RZ", 2, zz, k - 1, <<a>>)
                     /\ prog[3 * k - 1] = Instr("RZ", 2, zz, k - 1, <<b>>)
                     /\ prog[3 * k] = Instr("CPHASE", -4, zz, k - 1, <<a, b>>)
            /\ \A j \in 1 .. ns :
                 prog[3 * np + j] =
                     Instr("RZ", 2, z, j - 1, <<ret.qubit_singles[j]>>)

C9_Witness ==
    /\ ret.fn = "cost"
    /\ ret.out.returned
    /\ Len(ret.qubit_pairs) >= 2
    /\ Len(ret.qubit_singles) >= 1
    /\ Len(ret.out.prog) = 3 * Len(ret.qubit_pairs) + Len(ret.qubit_singles)

\* ------------------------------------------- the parent classes (vqe package)
\* the value the parent computes from the memory map it is run with
RECURSIVE SumSeq(_)
SumSeq(row) == IF row = <<>> THEN 0 ELSE row[1] + SumSeq(Tail(row))

RECURSIVE SumRows(_, _)
SumRows(m, keys) ==
    IF keys = {} THEN 0
    ELSE LET k == CHOOSE k \in keys : TRUE
         IN  SumSeq(m[k]) + SumRows(m, keys \ {k})

Energy(m) == SumRows(m, DOMAIN m)

\* the parent's __call__ appends LogEntry(x=params, fun=...) to self.log, when
\* the log exists
ParentLog(lg, logging, ref, fun) ==
    IF logging THEN Append(lg, [x |-> ref, fun |-> fun]) ELSE lg

\* --------------------------------------------------- the QAOA cost functions
\* faulty variant: the constructor keeps a copy of params
KeepParams_copy(h) == [heap |-> Append(h, h[1]), ref |-> Len(h) + 1]

\* self.params = params: the cost function keeps the caller's object
KeepParams(h) == [heap |-> h, ref |-> 1]

\* self.params.update_from_raw(params), then the parent is run with
\* self.params: heap is the heap afterwards, seen the object the parent reads
Evaluate(h, self, new) ==
    LET h1 == [h EXCEPT ![self] = update_from_raw(@, new)]
    IN  [heap |-> h1, seen |-> h1[self]]

\* faulty variant: the entry keeps the caller's array itself
ChildLogEntry_alias(lg, cps) ==
    [x |-> ArrayRef(CallerArray), fun |-> lg[Len(lg)].fun]

\* LogEntry(x=deepcopy(params), fun=self.log[-1].fun); the copy is the next
\* array to be allocated
ChildLogEntry(lg, cps) ==
    [x |-> ArrayRef(Len(cps) + 1), fun |-> lg[Len(lg)].fun]

\* the cost functions whose prepare_ansatz is the caller's initial_state
\* object see its new content; the others keep their own program
RECURSIVE Regrow(_, _)
Regrow(fns, content) ==
    IF fns = <<>> THEN <<>>
    ELSE << IF Head(fns).shared THEN [shared |-> TRUE, prog |-> content]
            ELSE Head(fns) >> \o Regrow(Tail(fns), content)

\* QAOACostFunctionOnWFSim.__init__ / QAOACostFunctionOnQVM.__init__: a cost
\* function is constructed from the caller's params and initial_state; the
\* caller may construct several from the same arguments.  self.prepare_ansatz
\* is the object prepare_qaoa_ansatz returns, so with an in-place += it is
\* the caller's initial_state object, which every cost function built from
\* it then shares.
\* the assignments of __init__: params kept as self.params, the returned
\* ansatz a as self.prepare_ansatz; the caller's initial_state object and the
\* earlier cost functions sharing it hold what += left in it
Install(k, init, kept, a, before) ==
    /\ heap' = kept.heap
    /\ self_params' = kept.ref
    /\ given_at' = init
    /\ IF a.returned
       THEN /\ pc' = "ready"
            /\ kind' = k
            /\ prepare_ansatz' = a.prog
            /\ shared' = (initial_state.given /\ a.same)
            /\ initial_state' =
                 IF initial_state.given
                 THEN [initial_state EXCEPT !.prog = a.arg]
                 ELSE initial_state
            /\ older' = Regrow(before, a.arg)
       ELSE /\ pc' = "failed"
            /\ UNCHANGED << kind, prepare_ansatz, shared, initial_state,
                            older >>
    /\ log' = <<>>
    /\ copies' = <<>>
    /\ hist' = <<>>
    /\ ninv' = 0
    /\ last' = NoInvocation
    /\ UNCHANGED << ret, iadd_in_place, enable_logging, x, memory_map >>

\* prepare_qaoa_ansatz(initial_state, params) as called by __init__
Prepare(k, init, kept, before) ==
    Install(k, init, kept,
            prepare_qaoa_ansatz(init, kept.heap[kept.ref], iadd_in_place),
            before)

Construct(k) ==
    /\ pc \in {"new", "ready"}
    /\ NConstructed < MaxConstructs
    /\ Prepare(k,
               IF initial_state.given THEN initial_state.prog
               ELSE all_plus_state(heap[1].reg),
               KeepParams(heap),
               IF pc = "ready"
               THEN Append(older, [shared |-> shared, prog |-> prepare_ansatz])
               ELSE older)

ConstructWFSim == Construct("WFSim")

ConstructQVM == Construct("QVM")

\* QAOACostFunctionOnWFSim.__call__ / QAOACostFunctionOnQVM.__call__, called
\* with the caller's array
Call(k) ==
    /\ pc = "ready"
    /\ kind = k
    /\ ninv < MaxCalls
    /\ LET ev == Evaluate(heap, self_params, x)
           mm == make_qaoa_memory_map(ev.seen)
           fun == Energy(mm)
           log1 == ParentLog(log, enable_logging, ParamsRef(self_params), fun)
       IN  /\ heap' = ev.heap
           /\ IF enable_logging
              THEN /\ copies' = Append(copies, x)
                   /\ log' = [log1 EXCEPT ![Len(log1)] = ChildLogEntry(log1, copies)]
              ELSE UNCHANGED << copies, log >>
           /\ hist' = Append(hist, [raw |-> x, fun |-> fun])
           /\ last' = [valid |-> TRUE, raw |-> x, seen |-> raw(ev.seen),
                       mm |-> mm]
    /\ ninv' = ninv + 1
    /\ UNCHANGED << ret, initial_state, iadd_in_place, enable_logging, pc, kind,
                    self_params, prepare_ansatz, shared, older, given_at, x,
                    memory_map >>

CallWFSim == Call("WFSim")

CallQVM == Call("QVM")

\* QAOACostFunctionOnWFSim.get_wavefunction, called with the caller's array
GetWavefunction ==
    /\ pc = "ready"
    /\ kind = "WFSim"
    /\ ninv < MaxCalls
    /\ LET ev == Evaluate(heap, self_params, x)
       IN  /\ heap' = ev.heap
           /\ last' = [valid |-> TRUE, raw |-> x, seen |-> raw(ev.seen),
                       mm |-> make_qaoa_memory_map(ev.seen)]
    /\ ninv' = ninv + 1
    /\ UNCHANGED << ret, initial_state, iadd_in_place, enable_logging, pc, kind,
                    self_params, prepare_ansatz, shared, older, given_at, log, x,
                    copies, memory_map, hist >>

\* the caller (an optimizer) overwrites its array in place
MutateCaller ==
    /\ pc = "ready"
    /\ \E v \in RawVecs(heap[1].n_steps) : v # x /\ x' = v
    /\ UNCHANGED << ret, heap, initial_state, iadd_in_place, enable_logging,
                    pc, kind, self_params, prepare_ansatz, shared, older,
                    given_at, log, copies, memory_map, ninv,
                    hist, last >>

\* cost_fun.make_memory_map(params) with the caller's params object
MakeMemoryMap ==
    /\ pc = "ready"
    /\ memory_map' = [built |-> TRUE, at |-> Epoch, arg |-> heap[1],
                      map |-> make_qaoa_memory_map(heap[1])]
    /\ UNCHANGED << ret, heap, initial_state, iadd_in_place, enable_logging,
                    pc, kind, self_params, prepare_ansatz, shared, older,
                    given_at, log, x, copies, ninv, hist,
                    last >>

\* _qaoa_annealing_program(params) with the caller's params object
AnnealingCall ==
    /\ pc \in {"new", "ready"}
    /\ ret' = [fn |-> "annealing", params |-> heap[1],
               out |-> qaoa_annealing_program(heap[1])]
    /\ UNCHANGED_lifecycle

\* a cost function about to be constructed on the params object p, the
\* caller's array holding p.raw()
Fresh(p) ==
    /\ ret = NoCall
    /\ heap = << p >>
    /\ pc = "new"
    /\ kind = "none"
    /\ self_params = 0
    /\ prepare_ansatz = EmptyProgram
    /\ shared = FALSE
    /\ older = <<>>
    /\ given_at = EmptyProgram
    /\ log = <<>>
    /\ x = raw(p)
    /\ copies = <<>>
    /\ memory_map = NoMemoryMap
    /\ ninv = 0
    /\ hist = <<>>
    /\ last = NoInvocation

\* ------------------------------------------------- building the ansatz
InitAnsatz ==
    /\ \E reg \in DistinctSeqs(Qubits, NQubits) :
         \E qs \in SubLists(reg) :
           \E qp \in DistinctSeqs(OrderedRegPairs(reg), MaxPairs) :
             \E n \in 0 .. MaxSteps :
               Fresh(MakeParams(reg, qs, qp, n, RawVector(n, 0)))
    /\ initial_state \in InitialStates
    /\ iadd_in_place \in BOOLEAN
    /\ enable_logging = FALSE

NextAnsatz ==
    \/ ConstructWFSim
    \/ ConstructQVM
    \/ MakeMemoryMap
    \/ AnnealingCall

SpecAnsatz == InitAnsatz /\ [][NextAnsatz]_vars

\* ------------------------------------------------- running a cost function
InitCost ==
    /\ \E n \in 1 .. MaxSteps :
         Fresh(MakeParams(TestReg, TestSingles, TestPairs, n, RawVector(n, 0)))
    /\ initial_state = NoInitialState
    /\ iadd_in_place \in BOOLEAN
    /\ enable_logging \in BOOLEAN

NextCost ==
    \/ ConstructWFSim
    \/ ConstructQVM
    \/ CallWFSim
    \/ CallQVM
    \/ GetWavefunction
    \/ MutateCaller
    \/ MakeMemoryMap

SpecCost == InitCost /\ [][NextCost]_vars

\* ----------------------------------------------------------------- claims
IsGate(instr) == instr.op # "DECLARE"

\* C1: the gate part of the program built by _qaoa_annealing_program is
\* exactly n_steps blocks in step order 0..n_steps-1; in block i the cost
\* rotation of step i (RZ/CPHASE reading z/zz_rotation_angles{i}) comes
\* entirely before the mixing rotation of step i (RX reading
\* x_rotation_angles{i}), and no gate of step i+1 precedes a gate of step i.
C1_AlternatingBlocks ==
    ret.fn = "annealing" =>
        LET p == ret.params
            gates == SelectSeq(ret.out.prog, IsGate)
            cost_len == 3 * Len(p.qubits_pairs) + Len(p.qubits_singles)
            block_len == cost_len + Len(p.reg)
        IN  /\ ret.out.returned
            /\ Len(gates) = p.n_steps * block_len
            /\ \A pos \in DOMAIN gates :
                 LET i == (pos - 1) \div block_len
                     off == (pos - 1) % block_len
                 IN  IF off < cost_len
                     THEN /\ gates[pos].op \in {"RZ", "CPHASE"}
                          /\ gates[pos].name \in
                               {"z_rotation_angles" \o ToString(i),
                                "zz_rotation_angles" \o ToString(i)}
                     ELSE /\ gates[pos].op = "RX"
                          /\ gates[pos].name = "x_rotation_angles" \o ToString(i)

C1_Witness ==
    /\ ret.fn = "annealing"
    /\ ret.out.returned
    /\ ret.params.n_steps >= 2
    /\ Len(ret.params.reg) >= 2
    /\ Len(ret.params.qubits_singles) >= 1
    /\ Len(ret.params.qubits_pairs) >= 1

\* the names declared by a program
DeclaredNames(p) == {p[k].name : k \in {j \in DOMAIN p : p[j].op = "DECLARE"}}

\* C2 as stated: every key of the memory map made by make_qaoa_memory_map is
\* the name of a register declared in the program prepare_qaoa_ansatz built
\* for the same params, also when reg, qubits_singles or qubits_pairs is
\* empty.
C2_KeysAreDeclared ==
    (pc = "ready" /\ memory_map.built /\ memory_map.arg = heap[self_params]) =>
        DOMAIN memory_map.map \subseteq DeclaredNames(prepare_ansatz)

\* C2 as amended: a key of the memory map is the name of a declared register
\* exactly when the qubit list of its family is not empty (reg for
\* x_rotation_angles{i}, qubits_singles for z_rotation_angles{i},
\* qubits_pairs for zz_rotation_angles{i}); the keys of a family whose list
\* is empty are in the map all the same, and the program declares nothing
\* that is not a key of the map.
C2_KeysOfNonEmptyListsAreDeclared ==
    (pc = "ready" /\ memory_map.built /\ memory_map.arg = heap[self_params]) =>
        LET p == memory_map.arg
            keys == DOMAIN memory_map.map
            declared == DeclaredNames(prepare_ansatz)
        IN  /\ declared \subseteq keys
            /\ \A i \in 0 .. p.n_steps - 1 :
                 LET xk == "x_rotation_angles" \o ToString(i)
                     zk == "z_rotation_angles" \o ToString(i)
                     zzk == "zz_rotation_angles" \o ToString(i)
                 IN  /\ {xk, zk, zzk} \subseteq keys
                     /\ xk \in declared <=> Len(p.reg) > 0
                     /\ zk \in declared <=> Len(p.qubits_singles) > 0
                     /\ zzk \in declared <=> Len(p.qubits_pairs) > 0

C2_Witness ==
    /\ pc = "ready"
    /\ memory_map.built
    /\ memory_map.arg = heap[self_params]
    /\ memory_map.arg.n_steps >= 2
    /\ Len(memory_map.arg.reg) >= 2
    /\ Len(memory_map.arg.qubits_singles) = 0
    /\ Len(memory_map.arg.qubits_pairs) >= 1
    /\ "x_rotation_angles1" \in DeclaredNames(prepare_ansatz)
    /\ "z_rotation_angles1" \in DOMAIN memory_map.map
    /\ "z_rotation_angles1" \notin DeclaredNames(prepare_ansatz)

\* C5: make_qaoa_memory_map returns a map with exactly 3*n_steps keys,
\* x_rotation_angles{i}, z_rotation_angles{i} and zz_rotation_angles{i} for
\* i in 0..n_steps-1, each holding the i-th row of the params attribute of
\* the same name; for n_steps = 0 the map is empty; params is unchanged.
C5_MemoryMapContents ==
    memory_map.built =>
        LET p == memory_map.arg
            m == memory_map.map
            n == p.n_steps
        IN  /\ Cardinality(DOMAIN m) = 3 * n
            /\ DOMAIN m =
                 UNION {{"x_rotation_angles" \o ToString(i),
                         "z_rotation_angles" \o ToString(i),
                         "zz_rotation_angles" \o ToString(i)} : i \in 0 .. n - 1}
            /\ \A i \in 0 .. n - 1 :
                 /\ m["x_rotation_angles" \o ToString(i)] = p.x_rotation_angles[i + 1]
                 /\ m["z_rotation_angles" \o ToString(i)] = p.z_rotation_angles[i + 1]
                 /\ m["zz_rotation_angles" \o ToString(i)] = p.zz_rotation_angles[i + 1]
            /\ n = 0 => m = <<>>
            /\ memory_map.at = Epoch => heap[1] = p

C5_Witness ==
    /\ memory_map.built
    /\ memory_map.arg.n_steps >= 2
    /\ Len(memory_map.arg.reg) >= 1
    /\ Len(memory_map.arg.qubits_singles) >= 1
    /\ Len(memory_map.arg.qubits_pairs) >= 1
    /\ Cardinality(DOMAIN memory_map.map) = 3 * memory_map.arg.n_steps

\* C7: without an initial_state the constructors prepare the all-plus state:
\* the ansatz starts with exactly one H per qubit of params.reg, in register
\* order; these instructions (or the given initial_state's, in their order)
\* are a prefix of the program, and the annealing program follows.
C7_StatePreparationPrefix ==
    (pc = "ready" /\ ret.fn = "annealing") =>
        LET reg == heap[1].reg
            hadamards ==
                [k \in 1 .. Len(reg) |->
                    [op |-> "H", mult |-> 0, name |-> "", idx |-> 0,
                     qubits |-> << reg[k] >>, size |-> 0]]
            prefix == IF initial_state.given THEN given_at
                      ELSE hadamards
        IN  /\ prepare_ansatz = prefix \o ret.out.prog
            /\ ~initial_state.given =>
                 Cardinality({k \in DOMAIN prepare_ansatz :
                                 prepare_ansatz[k].op = "H"}) = Len(reg)

C7_Witness ==
    /\ pc = "ready"
    /\ ret.fn = "annealing"
    /\ ~initial_state.given
    /\ Len(heap[1].reg) >= 2
    /\ heap[1].n_steps >= 1
    /\ Len(prepare_ansatz) > Len(heap[1].reg)

\* C6: with logging enabled, after k calls the log holds exactly k entries;
\* the x of the i-th entry equals the raw vector passed to the i-th call and
\* its fun is the value the parent logged; x is a copy of its own, so later
\* calls, updates of self.params and changes of the caller's array leave the
\* earlier entries as they were.
C6_LogHoldsCopies ==
    (pc = "ready" /\ enable_logging) =>
        /\ Len(log) = Len(hist)
        /\ \A i \in DOMAIN log :
             /\ Deref(log[i].x) = hist[i].raw
             /\ log[i].fun = hist[i].fun
             /\ log[i].x.obj = "array"
             /\ log[i].x.id # CallerArray
             /\ \A j \in DOMAIN log : j # i => log[j].x # log[i].x

C6_Witness ==
    /\ pc = "ready"
    /\ enable_logging
    /\ Len(log) = MaxCalls
    /\ hist[1].raw # hist[2].raw
    /\ x # hist[2].raw
    /\ x # hist[1].raw
    /\ Deref(log[1].x) = hist[1].raw

\* C8: the params object handed to the constructor is the one the cost
\* function keeps and updates: after any __call__ / get_wavefunction it holds
\* the raw parameters of the latest invocation, the parent was evaluated on
\* them, and a memory map built from the object afterwards has the angles of
\* the last evaluated point.
C8_CallerParamsFollowCalls ==
    (pc = "ready" /\ last.valid) =>
        /\ self_params = 1
        /\ raw(heap[1]) = last.raw
        /\ last.seen = last.raw
        /\ (memory_map.built /\ memory_map.at = Epoch) =>
               memory_map.map = last.mm

C8_Witness ==
    /\ pc = "ready"
    /\ last.valid
    /\ ninv = MaxCalls
    /\ Len(hist) >= 1
    /\ hist[1].raw # last.raw
    /\ memory_map.built
    /\ memory_map.at = Epoch
    /\ memory_map.map = last.mm

====
